---- MODULE Spec2Model ----
(***************************************************************************)
(* Request-ingress guard of alx-backend-security (Django app ip_tracking): *)
(* client-IP resolution, blocklist check with cache, geolocation lookup    *)
(* with provider fallback and cache, request log, the block_ip management  *)
(* command, the suspicious-IP detector task and the rate-limited login     *)
(* view.                                                                   *)
(*                                                                         *)
(* Text is modelled as a sequence of symbols: an address literal such as   *)
(* "8.8.8.8" is one symbol, "," and " " are symbols of their own.  Python's *)
(* None is PyNone, which differs from the four-letter text "None".         *)
(***************************************************************************)
EXTENDS Integers, Sequences, FiniteSets, TLC

VARIABLES
    blockedIPs,     \* BlockedIP table: ip -> [reason, created_at]
    blockCache,     \* cache entries "blocked_ip_<ip>": ip -> BOOLEAN
    geoCache,       \* cache entries "geolocation_<ip>": ip -> [country, city]
    requestLog,     \* RequestLog table, in insertion order
    suspiciousIPs,  \* SuspiciousIP table: ip -> [reason, flagged_at]
    now,            \* the clock, in hours
    rateCache,      \* rate-limit counters: <<rate, value>> -> count
    last,           \* the operation that ran last and what it did
    adminNote,      \* ip -> what the last block_ip command on ip found and did
    geoReturned,    \* ip -> value get_geolocation returned since the entry last expired
    run,            \* the POSTs one client has sent from one address since the counters were empty
    workers,        \* worker -> where its call of is_ip_blocked stands, and its locals
    operator        \* where the running block_ip command stands, and what has completed

vars == <<blockedIPs, blockCache, geoCache, requestLog, suspiciousIPs, now,
          rateCache, last, adminNote, geoReturned, run, workers, operator>>

guardVars == <<blockedIPs, blockCache, requestLog, adminNote>>
geoVars == <<geoCache, geoReturned>>
detectVars == <<suspiciousIPs, now>>
rateVars == <<rateCache, run>>
raceVars == <<workers, operator>>

----------------------------------------------------------------------------
(* Values and maps *)

PyNone == "<None>"
JsonTrue == "<true>"
JsonFalse == "<false>"

\* Python truthiness of a JSON scalar
Truthy(v) == v \notin {PyNone, "", JsonFalse}

EmptyMap == [k \in {} |-> PyNone]
Has(m, k) == k \in DOMAIN m
Put(m, k, v) == [x \in DOMAIN m \cup {k} |-> IF x = k THEN v ELSE m[x]]
Del(m, k) == [x \in DOMAIN m \ {k} |-> m[x]]
\* dict.get(key): the value, or None
DictGet(d, k) == IF k \in DOMAIN d THEN d[k] ELSE PyNone

NoGeo == [country |-> PyNone, city |-> PyNone]

----------------------------------------------------------------------------
(* Addresses *)

PublicIP == <<"8.8.8.8">>
OtherPublicIP == <<"1.1.1.1">>
PrivateIP == <<"10.0.0.5">>
LoopbackIP == <<"127.0.0.1">>
LinkLocalIP == <<"169.254.1.1">>
BogusIP == <<"not-an-ip">>
DefaultIP == <<"0.0.0.0">>

\* ipaddress.ip_address(s): the class of the address, "invalid" for ValueError
AddressClass(s) ==
    IF s \in {PublicIP, OtherPublicIP} THEN "global"
    ELSE IF s = PrivateIP THEN "private"
    ELSE IF s = LoopbackIP THEN "loopback"
    ELSE IF s = LinkLocalIP THEN "link_local"
    ELSE IF s = DefaultIP THEN "private"
    ELSE "invalid"

is_private_ip_invalid_is_public(ip_address) ==
    AddressClass(ip_address) \in {"private", "loopback", "link_local"}

is_private_ip(ip_address) ==
    IF AddressClass(ip_address) = "invalid" THEN TRUE
    ELSE AddressClass(ip_address) \in {"private", "loopback", "link_local"}

----------------------------------------------------------------------------
(* Geolocation providers and their responses *)

\* the three api records of fetch_geolocation, in list order; an absent key is PyNone
apis ==
    << [country_key |-> "country", city_key |-> "city",
        status_key |-> "status", success_value |-> "success", error_key |-> PyNone],
       [country_key |-> "country_name", city_key |-> "city",
        status_key |-> PyNone, success_value |-> PyNone, error_key |-> "error"],
       [country_key |-> "geoplugin_countryName", city_key |-> "geoplugin_city",
        status_key |-> PyNone, success_value |-> PyNone, error_key |-> PyNone] >>

NumProviders == Len(apis)

\* What requests.get gives: exc is a RequestException (timeout, connection error);
\* otherwise an HTTP status and a body that is no JSON ("invalid"), JSON that is
\* not an object ("array") or a JSON object with the fields in data.
Timeout == [exc |-> TRUE, status |-> 0, json |-> "invalid", data |-> EmptyMap]
Http(status, json, data) == [exc |-> FALSE, status |-> status, json |-> json, data |-> data]
Ok(data) == Http(200, "object", data)

P1Responses ==
    { Timeout,
      Http(200, "array", EmptyMap),
      Ok(("status" :> "success") @@ ("country" :> "France") @@ ("city" :> "Paris")),
      Ok(("status" :> "success") @@ ("city" :> "Paris")),
      Ok(("status" :> "fail") @@ ("country" :> "France") @@ ("city" :> "Paris")) }

P2Responses ==
    { Http(200, "invalid", EmptyMap),
      Ok(("error" :> JsonTrue) @@ ("country_name" :> "Kenya") @@ ("city" :> "Nairobi")),
      Ok(("error" :> JsonFalse) @@ ("country_name" :> "Kenya")),
      Ok(("country_name" :> "Kenya") @@ ("city" :> "Nairobi")) }

P3Responses ==
    { Http(404, "object", ("geoplugin_countryName" :> "Peru") @@ ("geoplugin_city" :> "Lima")),
      Ok(("geoplugin_countryName" :> "Peru") @@ ("geoplugin_city" :> "None")),
      Ok(("geoplugin_countryName" :> "") @@ ("geoplugin_city" :> "")) }

\* one response per provider, in provider order
GeoWorlds == { <<r1, r2, r3>> : r1 \in P1Responses, r2 \in P2Responses, r3 \in P3Responses }

\* One iteration of the loop over apis: "next" goes on to the following provider
\* (continue, or the end of the loop body), "break" leaves the loop, "raise" is an
\* exception neither except clause catches (list.get: AttributeError).
provider_step_keep_going(api, response, geo_data) ==
    IF response.exc THEN [kind |-> "next", geo |-> geo_data]
    ELSE IF response.status # 200 THEN [kind |-> "next", geo |-> geo_data]
    ELSE IF response.json = "invalid" THEN [kind |-> "next", geo |-> geo_data]
    ELSE IF response.json = "array" THEN [kind |-> "raise", geo |-> geo_data]
    ELSE LET data == response.data IN
         IF Truthy(api.error_key) /\ Truthy(DictGet(data, api.error_key))
         THEN [kind |-> "next", geo |-> geo_data]
         ELSE IF Truthy(api.status_key) /\ DictGet(data, api.status_key) # api.success_value
         THEN [kind |-> "next", geo |-> geo_data]
         ELSE LET country == DictGet(data, api.country_key)
                  city == DictGet(data, api.city_key)
                  g1 == IF Truthy(country) /\ country # "None"
                        THEN [geo_data EXCEPT !.country = country] ELSE geo_data
                  g2 == IF Truthy(city) /\ city # "None"
                        THEN [g1 EXCEPT !.city = city] ELSE g1
              IN [kind |-> "next", geo |-> g2]

provider_step(api, response, geo_data) ==
    IF response.exc THEN [kind |-> "next", geo |-> geo_data]
    ELSE IF response.status # 200 THEN [kind |-> "next", geo |-> geo_data]
    ELSE IF response.json = "invalid" THEN [kind |-> "next", geo |-> geo_data]
    ELSE IF response.json = "array" THEN [kind |-> "raise", geo |-> geo_data]
    ELSE LET data == response.data IN
         IF Truthy(api.error_key) /\ Truthy(DictGet(data, api.error_key))
         THEN [kind |-> "next", geo |-> geo_data]
         ELSE IF Truthy(api.status_key) /\ DictGet(data, api.status_key) # api.success_value
         THEN [kind |-> "next", geo |-> geo_data]
         ELSE LET country == DictGet(data, api.country_key)
                  city == DictGet(data, api.city_key)
                  g1 == IF Truthy(country) /\ country # "None"
                        THEN [geo_data EXCEPT !.country = country] ELSE geo_data
                  g2 == IF Truthy(city) /\ city # "None"
                        THEN [g1 EXCEPT !.city = city] ELSE g1
              IN [kind |-> IF Truthy(g2.country) THEN "break" ELSE "next", geo |-> g2]

RECURSIVE fetch_loop(_, _, _, _)
fetch_loop(i, world, geo_data, calls) ==
    IF i > NumProviders THEN [raised |-> FALSE, geo |-> geo_data, calls |-> calls]
    ELSE LET step == provider_step(apis[i], world[i], geo_data)
             called == Append(calls, i)
         IN IF step.kind = "raise" THEN [raised |-> TRUE, geo |-> NoGeo, calls |-> called]
            ELSE IF step.kind = "break" THEN [raised |-> FALSE, geo |-> step.geo, calls |-> called]
            ELSE fetch_loop(i + 1, world, step.geo, called)

\* fetch_geolocation(ip_address) when the providers answer as in world
fetch_geolocation(world) == fetch_loop(1, world, NoGeo, <<>>)

\* get_geolocation(ip_address) on the geo cache `cache`: the value returned (or the
\* exception raised), the cache afterwards, the providers called, and whether the
\* cache was read and written
get_geolocation(cache, ip_address, world) ==
    IF is_private_ip(ip_address)
    THEN [raised |-> FALSE, geo |-> NoGeo, cache |-> cache, calls |-> <<>>,
          cacheRead |-> FALSE, cacheWrite |-> FALSE]
    ELSE IF Has(cache, ip_address)
    THEN [raised |-> FALSE, geo |-> cache[ip_address], cache |-> cache, calls |-> <<>>,
          cacheRead |-> TRUE, cacheWrite |-> FALSE]
    ELSE LET f == fetch_geolocation(world)
         IN IF f.raised
            THEN [raised |-> TRUE, geo |-> NoGeo, cache |-> cache, calls |-> f.calls,
                  cacheRead |-> TRUE, cacheWrite |-> FALSE]
            ELSE [raised |-> FALSE, geo |-> f.geo, cache |-> Put(cache, ip_address, f.geo),
                  calls |-> f.calls, cacheRead |-> TRUE, cacheWrite |-> TRUE]

\* What a provider's response supplies, read off the response alone: ok when the
\* response is a 200 with a JSON object that signals success by the provider's
\* convention; country and city are the fields it then carries ("None" and the
\* empty text count as absent).
Supplied(i, response) ==
    LET good == /\ ~response.exc
                /\ response.status = 200
                /\ response.json = "object"
                /\ (i = 1 => DictGet(response.data, "status") = "success")
                /\ (i = 2 => ~Truthy(DictGet(response.data, "error")))
        field(k) == LET v == DictGet(response.data, k)
                    IN IF good /\ Truthy(v) /\ v # "None" THEN v ELSE PyNone
    IN [ok |-> good,
        country |-> field(apis[i].country_key),
        city |-> field(apis[i].city_key)]

GeoIPs == {PublicIP, PrivateIP, LoopbackIP, LinkLocalIP, BogusIP}

GeoInit ==
    /\ geoCache = EmptyMap
    /\ geoReturned = EmptyMap

\* a caller invokes get_geolocation(ip) while the providers answer as in world
GeoCall ==
    \E ip \in GeoIPs, world \in GeoWorlds :
        \E r \in {get_geolocation(geoCache, ip, world)} :
           /\ geoCache' = r.cache
           /\ geoReturned' = IF r.raised THEN geoReturned ELSE Put(geoReturned, ip, r.geo)
           /\ last' = [op |-> "geo", ip |-> ip,
                       raised |-> r.raised, ret |-> r.geo, calls |-> r.calls,
                       cacheRead |-> r.cacheRead, cacheWrite |-> r.cacheWrite,
                       cached |-> Has(r.cache, ip) /\ r.cache[ip] = r.geo,
                       prior |-> IF Has(geoReturned, ip)
                                 THEN [known |-> TRUE, geo |-> geoReturned[ip]]
                                 ELSE [known |-> FALSE, geo |-> NoGeo],
                       gave |-> IF r.calls = <<>> THEN <<>>
                                ELSE [i \in 1..NumProviders |-> Supplied(i, world[i])]]
           /\ UNCHANGED <<guardVars, detectVars, rateVars, raceVars>>

\* the 24h entry of ip expires (or the cache evicts it)
GeoExpiry ==
    \E ip \in DOMAIN geoCache :
        /\ geoCache' = Del(geoCache, ip)
        /\ geoReturned' = Del(geoReturned, ip)
        /\ last' = [op |-> "geo_expire", ip |-> ip]
        /\ UNCHANGED <<guardVars, detectVars, rateVars, raceVars>>

----------------------------------------------------------------------------
(* Client-IP resolution *)

\* s.split(',')[0]: the text before the first comma
RECURSIVE BeforeComma(_)
BeforeComma(s) ==
    IF s = <<>> \/ Head(s) = "," THEN <<>> ELSE <<Head(s)>> \o BeforeComma(Tail(s))

RECURSIVE LStrip(_)
LStrip(s) == IF s # <<>> /\ Head(s) = " " THEN LStrip(Tail(s)) ELSE s

RECURSIVE RStrip(_)
RStrip(s) == IF s # <<>> /\ s[Len(s)] = " " THEN RStrip(SubSeq(s, 1, Len(s) - 1)) ELSE s

\* s.strip()
Strip(s) == RStrip(LStrip(s))

\* request.META.get(name): an absent header and an empty one are both falsy
Header(META, name) == IF Has(META, name) THEN META[name] ELSE <<>>

get_client_ip_real_ip_first(META) ==
    LET x_forwarded_for == Header(META, "HTTP_X_FORWARDED_FOR")
        x_real_ip == Header(META, "HTTP_X_REAL_IP")
    IN IF x_real_ip # <<>> THEN Strip(x_real_ip)
       ELSE IF x_forwarded_for # <<>> THEN Strip(BeforeComma(x_forwarded_for))
       ELSE IF Has(META, "REMOTE_ADDR") THEN META["REMOTE_ADDR"]
       ELSE DefaultIP

get_client_ip(META) ==
    LET x_forwarded_for == Header(META, "HTTP_X_FORWARDED_FOR")
        x_real_ip == Header(META, "HTTP_X_REAL_IP")
    IN IF x_forwarded_for # <<>> THEN Strip(BeforeComma(x_forwarded_for))
       ELSE IF x_real_ip # <<>> THEN Strip(x_real_ip)
       ELSE IF Has(META, "REMOTE_ADDR") THEN META["REMOTE_ADDR"]
       ELSE DefaultIP

MaxHeaderLen == 5

\* the characters of a header value: blank, comma, and two address literals
HeaderSymbols == {" ", ",", "8.8.8.8", "10.0.0.5"}

\* the values of X-Forwarded-For, X-Real-IP and REMOTE_ADDR when the key is in META
XffValues == UNION {[1..n -> HeaderSymbols] : n \in 0..MaxHeaderLen}
XriValues == {<<>>, <<"1.1.1.1">>, <<" ", "1.1.1.1", " ">>}
RemoteValues == {<<>>, <<"127.0.0.1">>, <<"10.0.0.5">>}

\* a key of META that is absent (<<>>) or present with value o[1]
MetaItem(name, o) == IF o = <<>> THEN EmptyMap ELSE (name :> o[1])
Optional(values) == {<<>>} \cup {<<v>> : v \in values}

\* request.META restricted to the three keys get_client_ip reads
Metas ==
    { MetaItem("HTTP_X_FORWARDED_FOR", a) @@ MetaItem("HTTP_X_REAL_IP", b)
          @@ MetaItem("REMOTE_ADDR", c) :
        a \in Optional(XffValues), b \in Optional(XriValues), c \in Optional(RemoteValues) }

\* get_client_ip(request) is called on it
Resolve ==
    /\ last.op = "client_ip_input"
    /\ \E ip \in {get_client_ip(last.META)} :
          last' = [op |-> "client_ip", META |-> last.META, ret |-> ip]
    /\ UNCHANGED <<guardVars, geoVars, detectVars, rateVars, raceVars>>

----------------------------------------------------------------------------
(* Blocklist guard and request pipeline *)

\* is_ip_blocked(ip_address): the value returned and the block cache afterwards
is_ip_blocked(cache, table, ip_address) ==
    IF Has(cache, ip_address)
    THEN [ret |-> cache[ip_address], cache |-> cache]
    ELSE LET is_blocked == Has(table, ip_address)
         IN [ret |-> is_blocked, cache |-> Put(cache, ip_address, is_blocked)]

\* where the environment makes a call of process_request fail: nowhere, inside
\* is_ip_blocked (cache or database error), or in RequestLog.objects.create
Faults == {"none", "block_check", "log_create"}

process_request_log_first(bcache, table, gcache, log, t, request, world, fault) ==
    LET ip_address == get_client_ip(request.META)
        b == is_ip_blocked(bcache, table, ip_address)
        g == get_geolocation(gcache, ip_address, world)
        entry == [ip_address |-> ip_address, timestamp |-> t, path |-> request.path,
                  country |-> g.geo.country, city |-> g.geo.city]
    IN IF fault # "none"
       THEN [ip |-> ip_address, blocked |-> FALSE, response |-> "none", error |-> TRUE,
             logged |-> FALSE, blockCache |-> bcache, geoCache |-> gcache,
             requestLog |-> log, geoRead |-> FALSE, calls |-> <<>>]
       ELSE [ip |-> ip_address, blocked |-> b.ret,
             response |-> IF b.ret THEN "403" ELSE "none", error |-> g.raised,
             logged |-> ~g.raised, blockCache |-> b.cache, geoCache |-> g.cache,
             requestLog |-> IF g.raised THEN log ELSE Append(log, entry),
             geoRead |-> g.cacheRead, calls |-> g.calls]

process_request_without_except(bcache, table, gcache, log, t, request, world, fault) ==
    LET ip_address == get_client_ip(request.META)
        quiet == [ip |-> ip_address, blocked |-> FALSE, response |-> "none", error |-> TRUE,
                  logged |-> FALSE, blockCache |-> bcache, geoCache |-> gcache,
                  requestLog |-> log, geoRead |-> FALSE, calls |-> <<>>]
    IN IF fault = "block_check" THEN [quiet EXCEPT !.response = "raise", !.error = FALSE]
       ELSE LET b == is_ip_blocked(bcache, table, ip_address) IN
            IF b.ret
            THEN [quiet EXCEPT !.blocked = TRUE, !.response = "403", !.error = FALSE,
                               !.blockCache = b.cache]
            ELSE LET g == get_geolocation(gcache, ip_address, world)
                     seen == [quiet EXCEPT !.blockCache = b.cache, !.geoCache = g.cache,
                                           !.geoRead = g.cacheRead, !.calls = g.calls]
                     entry == [ip_address |-> ip_address, timestamp |-> t,
                               path |-> request.path,
                               country |-> g.geo.country, city |-> g.geo.city]
                 IN IF g.raised \/ fault = "log_create" THEN [seen EXCEPT !.response = "raise", !.error = FALSE]
                    ELSE [seen EXCEPT !.error = FALSE, !.logged = TRUE,
                                      !.requestLog = Append(log, entry)]

process_request_without_geo(bcache, table, gcache, log, t, request, world, fault) ==
    LET ip_address == get_client_ip(request.META)
        quiet == [ip |-> ip_address, blocked |-> FALSE, response |-> "none", error |-> TRUE,
                  logged |-> FALSE, blockCache |-> bcache, geoCache |-> gcache,
                  requestLog |-> log, geoRead |-> FALSE, calls |-> <<>>]
    IN IF fault = "block_check" THEN quiet
       ELSE LET b == is_ip_blocked(bcache, table, ip_address) IN
            IF b.ret
            THEN [quiet EXCEPT !.blocked = TRUE, !.response = "403", !.error = FALSE,
                               !.blockCache = b.cache]
            ELSE LET g == get_geolocation(gcache, ip_address, world)
                     seen == [quiet EXCEPT !.blockCache = b.cache, !.geoCache = g.cache,
                                           !.geoRead = g.cacheRead, !.calls = g.calls]
                     entry == [ip_address |-> ip_address, timestamp |-> t,
                               path |-> request.path,
                               country |-> PyNone, city |-> PyNone]
                 IN IF g.raised \/ fault = "log_create" THEN seen
                    ELSE [seen EXCEPT !.error = FALSE, !.logged = TRUE,
                                      !.requestLog = Append(log, entry)]

process_request_fail_closed(bcache, table, gcache, log, t, request, world, fault) ==
    LET ip_address == get_client_ip(request.META)
        quiet == [ip |-> ip_address, blocked |-> FALSE, response |-> "none", error |-> TRUE,
                  logged |-> FALSE, blockCache |-> bcache, geoCache |-> gcache,
                  requestLog |-> log, geoRead |-> FALSE, calls |-> <<>>]
    IN IF fault = "block_check" THEN [quiet EXCEPT !.response = "403"]
       ELSE LET b == is_ip_blocked(bcache, table, ip_address) IN
            IF b.ret
            THEN [quiet EXCEPT !.blocked = TRUE, !.response = "403", !.error = FALSE,
                               !.blockCache = b.cache]
            ELSE LET g == get_geolocation(gcache, ip_address, world)
                     seen == [quiet EXCEPT !.blockCache = b.cache, !.geoCache = g.cache,
                                           !.geoRead = g.cacheRead, !.calls = g.calls]
                     entry == [ip_address |-> ip_address, timestamp |-> t,
                               path |-> request.path,
                               country |-> g.geo.country, city |-> g.geo.city]
                 IN IF g.raised \/ fault = "log_create" THEN seen
                    ELSE [seen EXCEPT !.error = FALSE, !.logged = TRUE,
                                      !.requestLog = Append(log, entry)]

\* process_request(request): the response ("403", "none" for return None, or "raise"
\* for an exception that leaves the method), whether
\* the except clause logged an error, and the caches and the log afterwards
process_request(bcache, table, gcache, log, t, request, world, fault) ==
    LET ip_address == get_client_ip(request.META)
        quiet == [ip |-> ip_address, blocked |-> FALSE, response |-> "none", error |-> TRUE,
                  logged |-> FALSE, blockCache |-> bcache, geoCache |-> gcache,
                  requestLog |-> log, geoRead |-> FALSE, calls |-> <<>>]
    IN IF fault = "block_check" THEN quiet
       ELSE LET b == is_ip_blocked(bcache, table, ip_address) IN
            IF b.ret
            THEN [quiet EXCEPT !.blocked = TRUE, !.response = "403", !.error = FALSE,
                               !.blockCache = b.cache]
            ELSE LET g == get_geolocation(gcache, ip_address, world)
                     seen == [quiet EXCEPT !.blockCache = b.cache, !.geoCache = g.cache,
                                           !.geoRead = g.cacheRead, !.calls = g.calls]
                     entry == [ip_address |-> ip_address, timestamp |-> t,
                               path |-> request.path,
                               country |-> g.geo.country, city |-> g.geo.city]
                 IN IF g.raised \/ fault = "log_create" THEN seen
                    ELSE [seen EXCEPT !.error = FALSE, !.logged = TRUE,
                                      !.requestLog = Append(log, entry)]

----------------------------------------------------------------------------
(* The block_ip management command *)

\* validate_ipv46_address accepts the text
ValidAddress(ip_address) == AddressClass(ip_address) # "invalid"

handle_block_without_cache_set(table, cache, t, ip_address, reason, unblock) ==
    IF ~ValidAddress(ip_address)
    THEN [table |-> table, cache |-> cache, outcome |-> "CommandError"]
    ELSE IF unblock
    THEN IF Has(table, ip_address)
         THEN [table |-> Del(table, ip_address), cache |-> Del(cache, ip_address),
               outcome |-> "unblocked"]
         ELSE [table |-> table, cache |-> cache, outcome |-> "not_blocked"]
    ELSE IF ~Has(table, ip_address)
         THEN [table |-> Put(table, ip_address, [reason |-> reason, created_at |-> t]),
               cache |-> cache, outcome |-> "blocked"]
         ELSE IF reason # "" /\ table[ip_address].reason # reason
         THEN [table |-> [table EXCEPT ![ip_address].reason = reason], cache |-> cache,
               outcome |-> "reason_updated"]
         ELSE [table |-> table, cache |-> cache, outcome |-> "already_blocked"]

handle_unblock_without_cache_delete(table, cache, t, ip_address, reason, unblock) ==
    IF ~ValidAddress(ip_address)
    THEN [table |-> table, cache |-> cache, outcome |-> "CommandError"]
    ELSE IF unblock
    THEN IF Has(table, ip_address)
         THEN [table |-> Del(table, ip_address), cache |-> cache, outcome |-> "unblocked"]
         ELSE [table |-> table, cache |-> cache, outcome |-> "not_blocked"]
    ELSE IF ~Has(table, ip_address)
         THEN [table |-> Put(table, ip_address, [reason |-> reason, created_at |-> t]),
               cache |-> Put(cache, ip_address, TRUE), outcome |-> "blocked"]
         ELSE IF reason # "" /\ table[ip_address].reason # reason
         THEN [table |-> [table EXCEPT ![ip_address].reason = reason], cache |-> cache,
               outcome |-> "reason_updated"]
         ELSE [table |-> table, cache |-> cache, outcome |-> "already_blocked"]

handle_without_validation(table, cache, t, ip_address, reason, unblock) ==
    IF unblock
    THEN IF Has(table, ip_address)
         THEN [table |-> Del(table, ip_address), cache |-> Del(cache, ip_address),
               outcome |-> "unblocked"]
         ELSE [table |-> table, cache |-> cache, outcome |-> "not_blocked"]
    ELSE IF ~Has(table, ip_address)
         THEN [table |-> Put(table, ip_address, [reason |-> reason, created_at |-> t]),
               cache |-> Put(cache, ip_address, TRUE), outcome |-> "blocked"]
         ELSE IF reason # "" /\ table[ip_address].reason # reason
         THEN [table |-> [table EXCEPT ![ip_address].reason = reason], cache |-> cache,
               outcome |-> "reason_updated"]
         ELSE [table |-> table, cache |-> cache, outcome |-> "already_blocked"]

handle_block_overwrites_reason(table, cache, t, ip_address, reason, unblock) ==
    IF ~ValidAddress(ip_address)
    THEN [table |-> table, cache |-> cache, outcome |-> "CommandError"]
    ELSE IF unblock
    THEN IF Has(table, ip_address)
         THEN [table |-> Del(table, ip_address), cache |-> Del(cache, ip_address),
               outcome |-> "unblocked"]
         ELSE [table |-> table, cache |-> cache, outcome |-> "not_blocked"]
    ELSE IF ~Has(table, ip_address)
         THEN [table |-> Put(table, ip_address, [reason |-> reason, created_at |-> t]),
               cache |-> Put(cache, ip_address, TRUE), outcome |-> "blocked"]
         ELSE IF table[ip_address].reason # reason
         THEN [table |-> [table EXCEPT ![ip_address].reason = reason], cache |-> cache,
               outcome |-> "reason_updated"]
         ELSE [table |-> table, cache |-> cache, outcome |-> "already_blocked"]

\* Command.handle(ip_address, reason, unblock): the BlockedIP table and the block
\* cache afterwards, and what the command reported
handle(table, cache, t, ip_address, reason, unblock) ==
    IF ~ValidAddress(ip_address)
    THEN [table |-> table, cache |-> cache, outcome |-> "CommandError"]
    ELSE IF unblock
    THEN IF Has(table, ip_address)
         THEN [table |-> Del(table, ip_address), cache |-> Del(cache, ip_address),
               outcome |-> "unblocked"]
         ELSE [table |-> table, cache |-> cache, outcome |-> "not_blocked"]
    ELSE IF ~Has(table, ip_address)
         THEN [table |-> Put(table, ip_address, [reason |-> reason, created_at |-> t]),
               cache |-> Put(cache, ip_address, TRUE), outcome |-> "blocked"]
         ELSE IF reason # "" /\ table[ip_address].reason # reason
         THEN [table |-> [table EXCEPT ![ip_address].reason = reason], cache |-> cache,
               outcome |-> "reason_updated"]
         ELSE [table |-> table, cache |-> cache, outcome |-> "already_blocked"]

----------------------------------------------------------------------------
(* Operations of the request path and of the operator *)

MaxLog == 2

Meta(xff, xri, remote) ==
    [k \in {n \in {"HTTP_X_FORWARDED_FOR", "HTTP_X_REAL_IP", "REMOTE_ADDR"} :
              \/ n = "HTTP_X_FORWARDED_FOR" /\ xff # <<>>
              \/ n = "HTTP_X_REAL_IP" /\ xri # <<>>
              \/ n = "REMOTE_ADDR" /\ remote # <<>>} |->
        IF k = "HTTP_X_FORWARDED_FOR" THEN xff
        ELSE IF k = "HTTP_X_REAL_IP" THEN xri ELSE remote]

\* the requests the pipeline is driven with
Requests ==
    { [META |-> Meta(<<" ", "8.8.8.8", ",", " ", "10.0.0.5">>, <<"10.0.0.5">>, <<"127.0.0.1">>),
       path |-> "/admin"],
      [META |-> Meta(<<>>, <<>>, <<"10.0.0.5">>), path |-> "/"] }

\* the provider answers the pipeline is driven with
PipelineWorlds ==
    { <<Ok(("status" :> "success") @@ ("country" :> "France") @@ ("city" :> "Paris")),
        Timeout, Http(404, "invalid", EmptyMap)>>,
      <<Http(200, "array", EmptyMap), Timeout, Http(404, "invalid", EmptyMap)>> }

CommandIPs == {PublicIP, PrivateIP, BogusIP}
Reasons == {"", "abuse"}

CacheState(cache, ip) == IF ~Has(cache, ip) THEN "absent" ELSE IF cache[ip] THEN "true" ELSE "false"

GuardInit ==
    /\ blockedIPs = EmptyMap
    /\ blockCache = EmptyMap
    /\ requestLog = <<>>
    /\ adminNote = EmptyMap

\* a request passes through IPTrackingMiddleware.process_request; cap bounds the log
RequestUpTo(cap) ==
    \E request \in Requests, world \in PipelineWorlds, fault \in Faults :
        \E r \in {process_request(blockCache, blockedIPs, geoCache, requestLog, now,
                                 request, world, fault)} :
        \E g \in {get_geolocation(geoCache, r.ip, world)} :
           /\ Len(r.requestLog) <= cap
           /\ blockCache' = r.blockCache
           /\ geoCache' = r.geoCache
           /\ requestLog' = r.requestLog
           /\ last' = [op |-> "request", ip |-> r.ip, fault |-> fault,
                       blocked |-> r.blocked, cacheHit |-> Has(blockCache, r.ip),
                       response |-> r.response, error |-> r.error, logged |-> r.logged,
                       geoRead |-> r.geoRead, calls |-> r.calls,
                       path |-> request.path, geo |-> g.geo,
                       geoRaised |-> fault # "block_check" /\ ~r.blocked /\ g.raised,
                       after |-> IF Has(adminNote, r.ip) THEN adminNote[r.ip] ELSE "none"]
           /\ UNCHANGED <<blockedIPs, adminNote, geoReturned, detectVars, rateVars, raceVars>>

Request == RequestUpTo(MaxLog)

\* the operator runs manage.py block_ip <ip> [--reason TEXT] [--unblock], the
\* reason taken from reasons
CommandWith(reasons) ==
    \E ip \in CommandIPs, reason \in reasons, unblock \in BOOLEAN :
        \E r \in {handle(blockedIPs, blockCache, now, ip, reason, unblock)},
           before \in {CacheState(blockCache, ip)} :
           /\ blockedIPs' = r.table
           /\ blockCache' = r.cache
           /\ last' = [op |-> "command", ip |-> ip, unblock |-> unblock,
                       reason |-> reason, outcome |-> r.outcome]
           /\ adminNote' =
                IF r.outcome \in {"unblocked", "not_blocked"}
                THEN Put(adminNote, ip, IF before = "true" THEN "unblocked_cache_true"
                                        ELSE "unblocked")
                ELSE IF r.outcome = "blocked"
                THEN Put(adminNote, ip, IF before = "false" THEN "blocked_cache_false"
                                        ELSE "blocked")
                ELSE adminNote
           /\ UNCHANGED <<requestLog, geoVars, detectVars, rateVars, raceVars>>

Command == CommandWith(Reasons)

\* the 5-minute entry of ip expires
BlockCacheExpire ==
    \E ip \in DOMAIN blockCache :
        /\ blockCache' = Del(blockCache, ip)
        /\ last' = [op |-> "expire", ip |-> ip]
        /\ UNCHANGED <<blockedIPs, requestLog, adminNote, geoVars, detectVars, rateVars, raceVars>>

\* the whole cache is emptied (a restart with a cold cache)
CacheClear ==
    /\ blockCache # EmptyMap \/ geoCache # EmptyMap
    /\ blockCache' = EmptyMap
    /\ geoCache' = EmptyMap
    /\ last' = [op |-> "clear"]
    /\ UNCHANGED <<blockedIPs, requestLog, adminNote, geoReturned, detectVars, rateVars, raceVars>>

----------------------------------------------------------------------------
(* Requests and block_ip commands running at the same time *)

\* the request workers, the address they serve requests from, and how many
\* block_ip commands the operator runs
Workers == {1, 2}
RaceIP == PublicIP
MaxCommands == 2

IdleWorker == [pc |-> "idle", is_blocked |-> FALSE, era |-> "initial", epoch |-> 0]

\* operator.era: what the last block_ip command on RaceIP is or was ("blocking" and
\* "unblocking" while it runs, "blocked" and "unblocked" once it has completed);
\* operator.epoch counts the starts and completions of commands
RaceInit ==
    /\ workers = [w \in Workers |-> IdleWorker]
    /\ operator = [pc |-> "idle", era |-> "initial", epoch |-> 0]

\* a request from RaceIP reaches is_ip_blocked on worker w
CheckStart(w) ==
    /\ workers[w].pc = "idle"
    /\ workers' = [workers EXCEPT ![w] = [pc |-> "cache_get", is_blocked |-> FALSE,
                                          era |-> operator.era, epoch |-> operator.epoch]]
    /\ UNCHANGED <<guardVars, geoVars, detectVars, rateVars, last, operator>>

\* is_blocked = cache.get(cache_key)
CheckCacheGet(w) ==
    /\ workers[w].pc = "cache_get"
    /\ workers' = [workers EXCEPT ![w].pc = IF Has(blockCache, RaceIP) THEN "return" ELSE "db_get",
                                  ![w].is_blocked = Has(blockCache, RaceIP) /\ blockCache[RaceIP]]
    /\ UNCHANGED <<guardVars, geoVars, detectVars, rateVars, last, operator>>

\* BlockedIP.objects.get(ip_address=ip_address), or DoesNotExist
CheckDbGet(w) ==
    /\ workers[w].pc = "db_get"
    /\ workers' = [workers EXCEPT ![w].pc = "cache_set",
                                  ![w].is_blocked = Has(blockedIPs, RaceIP)]
    /\ UNCHANGED <<guardVars, geoVars, detectVars, rateVars, last, operator>>

\* cache.set(cache_key, is_blocked, 300)
CheckCacheSet(w) ==
    /\ workers[w].pc = "cache_set"
    /\ blockCache' = Put(blockCache, RaceIP, workers[w].is_blocked)
    /\ workers' = [workers EXCEPT ![w].pc = "return"]
    /\ UNCHANGED <<blockedIPs, requestLog, adminNote, geoVars, detectVars, rateVars, last,
                   operator>>

\* return is_blocked: the request is answered 403 or goes on
CheckReturn(w) ==
    /\ workers[w].pc = "return"
    /\ workers' = [workers EXCEPT ![w] = IdleWorker]
    /\ UNCHANGED <<guardVars, geoVars, detectVars, rateVars, last, operator>>

\* the operator starts block_ip RaceIP, with --unblock or without
CommandStart ==
    /\ operator.pc = "idle"
    /\ operator.epoch < 2 * MaxCommands
    /\ \E unblock \in BOOLEAN :
          operator' = [pc |-> IF unblock THEN "get" ELSE "get_or_create",
                       era |-> IF unblock THEN "unblocking" ELSE "blocking",
                       epoch |-> operator.epoch + 1]
    /\ UNCHANGED <<guardVars, geoVars, detectVars, rateVars, last, workers>>

\* BlockedIP.objects.get_or_create(ip_address=ip_address, defaults={'reason': reason});
\* when the row exists the command is over
BlockGetOrCreate ==
    /\ operator.pc = "get_or_create"
    /\ IF Has(blockedIPs, RaceIP)
       THEN /\ operator' = [pc |-> "idle", era |-> "blocked", epoch |-> operator.epoch + 1]
            /\ UNCHANGED blockedIPs
       ELSE /\ operator' = [operator EXCEPT !.pc = "cache_set"]
            /\ blockedIPs' = Put(blockedIPs, RaceIP, [reason |-> "", created_at |-> now])
    /\ UNCHANGED <<blockCache, requestLog, adminNote, geoVars, detectVars, rateVars, last,
                   workers>>

\* cache.set(cache_key, True, 300), and the command is over
BlockCacheSet ==
    /\ operator.pc = "cache_set"
    /\ blockCache' = Put(blockCache, RaceIP, TRUE)
    /\ operator' = [pc |-> "idle", era |-> "blocked", epoch |-> operator.epoch + 1]
    /\ UNCHANGED <<blockedIPs, requestLog, adminNote, geoVars, detectVars, rateVars, last,
                   workers>>

\* BlockedIP.objects.get(ip_address=ip_address); on DoesNotExist the command is over
UnblockGet ==
    /\ operator.pc = "get"
    /\ operator' = IF Has(blockedIPs, RaceIP)
                   THEN [operator EXCEPT !.pc = "delete"]
                   ELSE [pc |-> "idle", era |-> "unblocked", epoch |-> operator.epoch + 1]
    /\ UNCHANGED <<guardVars, geoVars, detectVars, rateVars, last, workers>>

\* blocked_ip.delete()
UnblockDelete ==
    /\ operator.pc = "delete"
    /\ blockedIPs' = Del(blockedIPs, RaceIP)
    /\ operator' = [operator EXCEPT !.pc = "cache_delete"]
    /\ UNCHANGED <<blockCache, requestLog, adminNote, geoVars, detectVars, rateVars, last,
                   workers>>

\* cache.delete(cache_key), and the command is over
UnblockCacheDelete ==
    /\ operator.pc = "cache_delete"
    /\ blockCache' = Del(blockCache, RaceIP)
    /\ operator' = [pc |-> "idle", era |-> "unblocked", epoch |-> operator.epoch + 1]
    /\ UNCHANGED <<blockedIPs, requestLog, adminNote, geoVars, detectVars, rateVars, last,
                   workers>>

----------------------------------------------------------------------------
(* The suspicious-activity detector (tasks.py) *)

\* tasks.py imports shared_task, timezone, timedelta, RequestLog and SuspiciousIP;
\* it reads the name `models` (models.Count) without ever binding it, so evaluating
\* the request_counts query raises NameError
ModelsNameBound == FALSE

VolumeThreshold == 100
\* timedelta(hours=1), in clock ticks
WindowHours == 1
sensitive_paths == {"/admin", "/login"}

\* indices of the entries with timestamp >= one_hour_ago
InWindow(log, t) == {i \in 1..Len(log) : log[i].timestamp >= t - WindowHours}

\* the annotated count of ip in request_counts
RequestCount(log, t, ip) == Cardinality({i \in InWindow(log, t) : log[i].ip_address = ip})

\* SuspiciousIP.objects.get_or_create(ip_address=ip, defaults={'reason': reason})
get_or_create(table, t, ip, reason) ==
    IF Has(table, ip) THEN table ELSE Put(table, ip, [reason |-> reason, flagged_at |-> t])

\* the first loop: every ip of request_counts with count > 100
flag_volume(log, table, t) ==
    LET ips == {log[i].ip_address : i \in InWindow(log, t)}
        flagged == {ip \in ips : RequestCount(log, t, ip) > VolumeThreshold}
    IN [ip \in DOMAIN table \cup flagged |->
           IF Has(table, ip) THEN table[ip]
           ELSE [reason |-> [rule |-> "volume", count |-> RequestCount(log, t, ip), path |-> ""],
                 flagged_at |-> t]]

\* indices of the window's entries on a sensitive path
SensitiveEntries(log, t) == {i \in InWindow(log, t) : log[i].path \in sensitive_paths}

\* the second loop: get_or_create per entry of logs, so the first entry of an ip in
\* the order the database returns them decides the reason; first[ip] is its path
flag_sensitive(log, table, t, first) ==
    LET ips == {log[i].ip_address : i \in SensitiveEntries(log, t)}
    IN [ip \in DOMAIN table \cup ips |->
           IF Has(table, ip) THEN table[ip]
           ELSE [reason |-> [rule |-> "sensitive", count |-> 0, path |-> first[ip]],
                 flagged_at |-> t]]

\* detect_suspicious_ips(): whether it raised, and the SuspiciousIP table afterwards
detect_suspicious_ips(log, table, t, first) ==
    IF ~ModelsNameBound THEN [raised |-> TRUE, table |-> table]
    ELSE [raised |-> FALSE,
          table |-> flag_sensitive(log, flag_volume(log, table, t), t, first)]

\* Meta.ordering = ['-timestamp']: newest first, entries of one timestamp in any
\* order; the paths the first sensitive entry of ip can have
FirstPaths(log, t, ip) ==
    LET rows == {i \in SensitiveEntries(log, t) : log[i].ip_address = ip}
    IN {log[i].path : i \in {j \in rows : \A k \in rows : log[j].timestamp >= log[k].timestamp}}

FirstChoices(log, t) ==
    LET ips == {log[i].ip_address : i \in SensitiveEntries(log, t)}
    IN {f \in [ips -> sensitive_paths] : \A ip \in ips : f[ip] \in FirstPaths(log, t, ip)}

MaxTime == 2

\* n requests of one client, as process_request logs them at hour t
Bulk(n, ip, path, geo, t) ==
    [i \in 1..n |-> [ip_address |-> ip, timestamp |-> t, path |-> path,
                     country |-> geo.country, city |-> geo.city]]

DetectInit ==
    /\ suspiciousIPs = EmptyMap
    /\ now = 0

\* the scheduler runs detect_suspicious_ips
Detect ==
    \E first \in FirstChoices(requestLog, now) :
        \E r \in {detect_suspicious_ips(requestLog, suspiciousIPs, now, first)} :
           /\ suspiciousIPs' = r.table
           /\ last' = [op |-> "detect", raised |-> r.raised, before |-> suspiciousIPs]
           /\ UNCHANGED <<guardVars, geoVars, rateVars, now, raceVars>>

\* an hour passes
Tick ==
    /\ now < MaxTime
    /\ now' = now + 1
    /\ last' = [op |-> "tick"]
    /\ UNCHANGED <<guardVars, geoVars, rateVars, suspiciousIPs, raceVars>>

DetectorRequest == RequestUpTo(VolumeThreshold + MaxLog)

----------------------------------------------------------------------------
(* The rate-limited login view (views.py) *)

\* rate='5/m' of the first decorator, rate='10/m' of the second
IpLimit == 5
UserLimit == 10

Anonymous == <<"anonymous">>
UserPk == <<"1">>

\* user_or_ip(group, request)
user_or_ip(request) == IF request.user # Anonymous THEN request.user ELSE request.remote

\* One @ratelimit(key=..., rate=..., method='POST', block=True) check, the key
\* already resolved to `value`: a request of another method is not counted; a POST
\* increments the counter of <<rate, value>> in the current window and is limited
\* when the new count exceeds the limit.
ratelimit(cache, rate, limit, value, method) ==
    IF method # "POST"
    THEN [cache |-> cache, evaluated |-> FALSE, limited |-> FALSE, count |-> 0]
    ELSE LET key == <<rate, value>>
             count == IF Has(cache, key) THEN cache[key] + 1 ELSE 1
         IN [cache |-> Put(cache, key, count), evaluated |-> TRUE,
             limited |-> count > limit, count |-> count]

NotEvaluated(cache) == [cache |-> cache, evaluated |-> FALSE, limited |-> FALSE, count |-> 0]

login_view_ip_limit_not_blocking(cache, request) ==
    LET by_ip == ratelimit(cache, "5/m", IpLimit, request.remote, request.method)
        by_user == ratelimit(by_ip.cache, "10/m", UserLimit, user_or_ip(request), request.method)
    IN IF by_user.limited
       THEN [cache |-> by_user.cache, outcome |-> "ratelimited", by_ip |-> by_ip, by_user |-> by_user]
       ELSE [cache |-> by_user.cache,
             outcome |-> IF request.method = "POST" THEN "processed" ELSE "405",
             by_ip |-> by_ip, by_user |-> by_user]

\* login_view under its two decorators: the outer one (key='ip') runs first and,
\* when it blocks, raises Ratelimited before the inner one (key=user_or_ip) runs
login_view(cache, request) ==
    LET by_ip == ratelimit(cache, "5/m", IpLimit, request.remote, request.method)
    IN IF by_ip.limited
       THEN [cache |-> by_ip.cache, outcome |-> "ratelimited", by_ip |-> by_ip,
             by_user |-> NotEvaluated(by_ip.cache)]
       ELSE LET by_user == ratelimit(by_ip.cache, "10/m", UserLimit,
                                     user_or_ip(request), request.method)
            IN IF by_user.limited
               THEN [cache |-> by_user.cache, outcome |-> "ratelimited", by_ip |-> by_ip,
                     by_user |-> by_user]
               ELSE [cache |-> by_user.cache,
                     outcome |-> IF request.method = "POST" THEN "processed" ELSE "405",
                     by_ip |-> by_ip, by_user |-> by_user]

MaxIpHits == 7
MaxUserHits == 12

LoginRequests ==
    [method : {"POST", "GET"}, user : {Anonymous, UserPk}, remote : {PublicIP, PrivateIP}]

NoRun == [user |-> Anonymous, remote |-> DefaultIP, n |-> 0]

RateInit ==
    /\ rateCache = EmptyMap
    /\ run = NoRun

\* a client sends a request to login_view
Login ==
    \E request \in LoginRequests :
        \E r \in {login_view(rateCache, request)} :
           /\ r.by_ip.count <= MaxIpHits
           /\ r.by_user.count <= MaxUserHits
           /\ rateCache' = r.cache
           /\ run' = IF request.method # "POST" THEN run
                     ELSE IF rateCache = EmptyMap
                     THEN [user |-> request.user, remote |-> request.remote, n |-> 1]
                     ELSE IF run.n > 0 /\ run.user = request.user /\ run.remote = request.remote
                     THEN [run EXCEPT !.n = run.n + 1]
                     ELSE NoRun
           /\ last' = [op |-> "login", method |-> request.method, user |-> request.user,
                       remote |-> request.remote, outcome |-> r.outcome,
                       ipEvaluated |-> r.by_ip.evaluated, ipCount |-> r.by_ip.count,
                       userEvaluated |-> r.by_user.evaluated, userCount |-> r.by_user.count,
                       cacheSame |-> r.cache = rateCache]
           /\ UNCHANGED <<guardVars, geoVars, detectVars, raceVars>>

\* the 60-second window of the counters keyed by `value` ends: both rates share
\* the period, so both counters of the value start again
WindowRoll ==
    \E value \in {key[2] : key \in DOMAIN rateCache} :
        /\ rateCache' = [key \in {k \in DOMAIN rateCache : k[2] # value} |-> rateCache[key]]
        /\ run' = NoRun
        /\ last' = [op |-> "window", value |-> value]
        /\ UNCHANGED <<guardVars, geoVars, detectVars, raceVars>>

----------------------------------------------------------------------------
(* Specifications *)

Init ==
    GuardInit /\ GeoInit /\ DetectInit /\ RateInit /\ RaceInit /\ last = [op |-> "init"]

Next == Request \/ Command \/ BlockCacheExpire \/ CacheClear \/ Detect

\* the request pipeline, the block_ip command and the cache
Spec == Init /\ [][Next]_vars

\* logs as the pipeline leaves them after about VolumeThreshold requests of one client
DetectorInit ==
    /\ GeoInit /\ DetectInit /\ RateInit /\ RaceInit /\ last = [op |-> "init"]
    /\ blockedIPs = EmptyMap
    /\ adminNote = EmptyMap
    /\ \E n \in (VolumeThreshold - 1)..(VolumeThreshold + 1) :
          \/ /\ requestLog = Bulk(n, PrivateIP, "/", NoGeo, 0)
             /\ blockCache = Put(EmptyMap, PrivateIP, FALSE)
          \/ /\ requestLog = Bulk(n, PublicIP, "/admin", [country |-> "France", city |-> "Paris"], 0)
             /\ blockCache = Put(EmptyMap, PublicIP, FALSE)

DetectorNext == Detect \/ DetectorRequest \/ Tick

\* the detector, run between requests as the hours pass
DetectorSpec == DetectorInit /\ [][DetectorNext]_vars

RateNext == Login \/ WindowRoll

\* the login view under its rate limits
RateSpec == Init /\ [][RateNext]_vars

GeoNext == GeoCall \/ GeoExpiry

\* the geolocation resolver called on its own
GeoSpec == Init /\ [][GeoNext]_vars

\* the reasons the operator's console is driven with
ConsoleReasons == Reasons \cup {"spam"}

ConsoleCommand == CommandWith(ConsoleReasons)

ConsoleNext == ConsoleCommand \/ Tick \/ BlockCacheExpire

\* the block_ip command run again and again as the hours pass
ConsoleSpec == Init /\ [][ConsoleNext]_vars

InterleavedNext ==
    \/ \E w \in Workers :
          \/ CheckStart(w)
          \/ CheckCacheGet(w)
          \/ CheckDbGet(w)
          \/ CheckCacheSet(w)
          \/ CheckReturn(w)
    \/ CommandStart
    \/ BlockGetOrCreate
    \/ BlockCacheSet
    \/ UnblockGet
    \/ UnblockDelete
    \/ UnblockCacheDelete
    \/ BlockCacheExpire

\* requests checked against the blocklist while block_ip commands run
InterleavedSpec == Init /\ [][InterleavedNext]_vars

\* a request with headers META has arrived
ClientIpInit ==
    /\ GuardInit /\ GeoInit /\ DetectInit /\ RateInit /\ RaceInit
    /\ \E META \in Metas : last = [op |-> "client_ip_input", META |-> META]

ClientIpNext == Resolve

\* the client-IP resolver applied to every request of Metas
ClientIpSpec == ClientIpInit /\ [][ClientIpNext]_vars

----------------------------------------------------------------------------
(* Blocklist guard: properties *)

\* is_ip_blocked(ip) would answer True in the current state
ReportsBlocked(ip) == is_ip_blocked(blockCache, blockedIPs, ip).ret

\* C1: a request whose resolved IP is_ip_blocked reports as blocked gets the 403
\* response, appends nothing to the request log, reads no geo-cache entry, calls no
\* provider, and leaves the request log and the geo cache as they were.
C1_BlockedRequestLeavesNoTrace ==
    [][ (/\ last'.op = "request"
         /\ last'.fault # "block_check"
         /\ ReportsBlocked(last'.ip))
        => (/\ last'.response = "403"
            /\ ~last'.logged
            /\ ~last'.geoRead
            /\ last'.calls = <<>>
            /\ requestLog' = requestLog
            /\ geoCache' = geoCache) ]_vars

\* a public IP that was logged and geolocated earlier is now rejected
C1_Witness ==
    /\ last.op = "request"
    /\ last.blocked
    /\ last.response = "403"
    /\ last.ip = PublicIP
    /\ Has(geoCache, PublicIP)
    /\ requestLog # <<>>

\* C2: while the BlockedIP row of ip exists, is_ip_blocked(ip) answers True, whatever
\* the block cache held when the row was inserted and also once the cache has been
\* emptied; a request from ip whose check does not fail is answered 403.
C2_BlockedIpIsReportedBlocked ==
    /\ \A ip \in DOMAIN blockedIPs : ReportsBlocked(ip)
    /\ (last.op = "request" /\ last.fault # "block_check" /\ Has(blockedIPs, last.ip))
           => last.blocked /\ last.response = "403"

\* the row was inserted over a cached False, the cache entry has since gone, and
\* the request is rejected from the table
C2_Witness ==
    /\ last.op = "request"
    /\ last.after = "blocked_cache_false"
    /\ ~last.cacheHit
    /\ last.response = "403"

UnblockedNotes == {"unblocked", "unblocked_cache_true"}

\* C3: once block_ip --unblock ip has finished and no later block of ip has run,
\* is_ip_blocked(ip) answers False and a request from ip is not answered 403, also
\* when the cache held True for ip at the time of the unblock.
C3_UnblockedIpIsNotRejected ==
    /\ \A ip \in DOMAIN adminNote : adminNote[ip] \in UnblockedNotes => ~ReportsBlocked(ip)
    /\ (last.op = "request" /\ last.after \in UnblockedNotes)
           => ~last.blocked /\ last.response # "403"

\* the unblock removed a cached True and the next request went through and was logged
C3_Witness ==
    /\ last.op = "request"
    /\ last.after = "unblocked_cache_true"
    /\ last.response = "none"
    /\ last.logged

\* a stage of the pipeline raised during the request recorded in l: the blocklist
\* check, the geolocation lookup, or the creation of the RequestLog entry
StageRaised(l) ==
    \/ l.fault = "block_check"
    \/ l.geoRaised
    \/ l.fault = "log_create" /\ ~l.blocked

\* C13: when the creation of the RequestLog entry, or a stage before it, raises,
\* process_request records the error and returns None; no exception leaves it.
C13_FailureIsLoggedAndSwallowed ==
    /\ last.op = "request" => last.response # "raise"
    /\ (last.op = "request" /\ StageRaised(last))
           => last.error /\ last.response = "none"

\* the entry could not be created after the location had been looked up
C13_Witness ==
    /\ last.op = "request"
    /\ last.fault = "log_create"
    /\ last.geoRead
    /\ last.error
    /\ last.response = "none"

\* C14: every step leaves the request log as it was or appends one entry to it; a
\* request that is not blocked and meets no failure appends exactly the entry with
\* the resolved IP, the request path and the resolved country and city.
C14_RequestLogAppendOnly ==
    [][ /\ \/ requestLog' = requestLog
           \/ /\ last'.op = "request"
              /\ Len(requestLog') = Len(requestLog) + 1
              /\ SubSeq(requestLog', 1, Len(requestLog)) = requestLog
        /\ (last'.op = "request" /\ ~last'.blocked /\ ~StageRaised(last'))
               => requestLog' = Append(requestLog,
                      [ip_address |-> last'.ip, timestamp |-> now, path |-> last'.path,
                       country |-> last'.geo.country, city |-> last'.geo.city]) ]_vars

\* a second entry, located in France, follows a first one
C14_Witness ==
    /\ last.op = "request"
    /\ last.logged
    /\ Len(requestLog) = 2
    /\ requestLog[2].ip_address = PublicIP
    /\ requestLog[2].path = "/admin"
    /\ requestLog[2].country = "France"
    /\ requestLog[2].city = "Paris"

\* C21: when the blocklist check itself raises, process_request returns None and
\* the request goes on to the endpoint, also when its IP has a BlockedIP row; no
\* RequestLog entry is created for it.
C21_GuardFailsOpen ==
    [][ (last'.op = "request" /\ last'.fault = "block_check")
        => (/\ last'.response = "none"
            /\ last'.error
            /\ ~last'.logged
            /\ requestLog' = requestLog) ]_vars

\* the check failed for an address that has a row, and the request went through
C21_Witness ==
    /\ last.op = "request"
    /\ last.fault = "block_check"
    /\ Has(blockedIPs, last.ip)
    /\ last.response = "none"

----------------------------------------------------------------------------
(* The block_ip command: properties *)

\* C15: block_ip, with or without --unblock, given a text that is not an IPv4 or
\* IPv6 address ends with CommandError and leaves the BlockedIP table and the block
\* cache exactly as they were.
C15_InvalidAddressChangesNothing ==
    [][ (last'.op = "command" /\ AddressClass(last'.ip) = "invalid")
        => (/\ last'.outcome = "CommandError"
            /\ blockedIPs' = blockedIPs
            /\ blockCache' = blockCache) ]_vars

\* --unblock of a text that is no address, refused while a row and its cache entry
\* exist
C15_Witness ==
    /\ last.op = "command"
    /\ last.ip = BogusIP
    /\ last.unblock
    /\ last.outcome = "CommandError"
    /\ blockedIPs # EmptyMap
    /\ blockCache # EmptyMap

\* C20: block_ip on an address that already has a row adds no row and changes no
\* other row, keeps created_at, leaves the block cache alone, and stores the given
\* reason only when it is non-empty and differs from the stored one.
C20_BlockAgainOnlyUpdatesReason ==
    [][ (last'.op = "command" /\ ~last'.unblock /\ Has(blockedIPs, last'.ip))
        => LET ip == last'.ip IN
           /\ DOMAIN blockedIPs' = DOMAIN blockedIPs
           /\ \A other \in DOMAIN blockedIPs \ {ip} : blockedIPs'[other] = blockedIPs[other]
           /\ blockedIPs'[ip].created_at = blockedIPs[ip].created_at
           /\ blockedIPs'[ip].reason =
                 IF last'.reason # "" /\ last'.reason # blockedIPs[ip].reason
                 THEN last'.reason ELSE blockedIPs[ip].reason
           /\ blockCache' = blockCache ]_vars

\* an address blocked for "abuse" at hour 0 is blocked again at hour 2 without a
\* reason and keeps both
C20_Witness ==
    /\ last.op = "command"
    /\ ~last.unblock
    /\ last.reason = ""
    /\ last.outcome = "already_blocked"
    /\ now = 2
    /\ blockedIPs[last.ip] = [reason |-> "abuse", created_at |-> 0]

----------------------------------------------------------------------------
(* Blocklist guard under concurrency: properties *)

\* worker w is about to return from a check that began in the current era, after
\* the last command had completed
ReturnsIn(w, era) ==
    /\ workers[w].pc = "return"
    /\ workers[w].era = era
    /\ workers[w].epoch = operator.epoch

\* C16: once a block command on ip has completed and no unblock has begun, every
\* check of ip that starts afterwards returns True (the request is answered 403),
\* however the steps of earlier checks interleave with the command.
C16_BlockHoldsUnderConcurrency ==
    \A w \in Workers : ReturnsIn(w, "blocked") => workers[w].is_blocked

\* C17: once an unblock of ip has completed and no block has begun, the block cache
\* does not hold True for ip and every check of ip that starts afterwards returns
\* False, however the steps of earlier checks interleave with the command.
C17_UnblockHoldsUnderConcurrency ==
    /\ operator.era = "unblocked" => ~(Has(blockCache, RaceIP) /\ blockCache[RaceIP])
    /\ \A w \in Workers : ReturnsIn(w, "unblocked") => ~workers[w].is_blocked

----------------------------------------------------------------------------
(* Geolocation resolver: properties *)

NonGlobalClasses == {"private", "loopback", "link_local", "invalid"}

\* C8: for a private, loopback or link-local address, and for a text that is no
\* address at all, get_geolocation returns {None, None}, raises nothing, neither
\* reads nor writes the geo cache and calls no provider.
C8_PrivateIpSkipsLookup ==
    [][ (last'.op = "geo" /\ AddressClass(last'.ip) \in NonGlobalClasses)
        => (/\ ~last'.raised
            /\ last'.ret = NoGeo
            /\ ~last'.cacheRead
            /\ ~last'.cacheWrite
            /\ last'.calls = <<>>
            /\ geoCache' = geoCache) ]_vars

\* the call was made with a text that is no address while the cache held an entry
C8_Witness ==
    /\ last.op = "geo"
    /\ last.ip = BogusIP
    /\ last.ret = NoGeo
    /\ geoCache # EmptyMap

YieldsCountry(g) == g.ok /\ g.country # PyNone

\* C9: on a cache miss for a public IP the providers are called in the order
\* 1, 2, 3; the provider whose successful response yields a country is the last one
\* called, and the loop stops before provider 3 only there; if provider 1 succeeds
\* with a country and a city, exactly that pair is returned and only provider 1 is
\* called.
C9_ProviderOrderAndEarlyStop ==
    (last.op = "geo" /\ last.gave # <<>>) =>
        LET n == Len(last.calls) IN
        /\ n >= 1
        /\ last.calls = [i \in 1..n |-> i]
        /\ \A k \in 1..n : YieldsCountry(last.gave[k]) => k = n
        /\ (~last.raised /\ n < NumProviders) => YieldsCountry(last.gave[n])
        /\ (YieldsCountry(last.gave[1]) /\ last.gave[1].city # PyNone)
               => /\ ~last.raised
                  /\ last.ret = [country |-> last.gave[1].country, city |-> last.gave[1].city]
                  /\ last.calls = <<1>>

\* provider 1 answered with France and Paris and nobody else was asked
C9_Witness ==
    /\ last.op = "geo"
    /\ last.calls = <<1>>
    /\ last.ret = [country |-> "France", city |-> "Paris"]

\* C10: if provider 1 fails and provider 2 succeeds with a country only, the call
\* returns {country, None} and caches it; and once get_geolocation(ip) has returned,
\* every later call before the entry expires returns the same value and calls no
\* provider.
C10_FallbackAndCaching ==
    /\ (/\ last.op = "geo"
        /\ last.gave # <<>>
        /\ ~last.gave[1].ok
        /\ YieldsCountry(last.gave[2])
        /\ last.gave[2].city = PyNone)
           => /\ ~last.raised
              /\ last.ret = [country |-> last.gave[2].country, city |-> PyNone]
              /\ last.cached
    /\ (last.op = "geo" /\ last.prior.known /\ AddressClass(last.ip) = "global")
           => /\ ~last.raised
              /\ last.ret = last.prior.geo
              /\ last.calls = <<>>

\* C11: if no provider yields a country the call returns {None, None} and caches
\* it; and a value returned after a fetch never has a city while its country is
\* absent.
C11_NoCityWithoutCountry ==
    (last.op = "geo" /\ last.gave # <<>>) =>
        /\ (\A i \in 1..NumProviders : ~YieldsCountry(last.gave[i]))
               => /\ ~last.raised
                  /\ last.ret = NoGeo
                  /\ last.cached
        /\ (~last.raised /\ last.ret.country = PyNone) => last.ret.city = PyNone

\* C19: a provider that answers with a non-200 status, whose request raises, whose
\* body is no JSON or JSON that is not an object, or whose body signals failure
\* contributes no country and no city; the next provider is then called; and no
\* exception leaves the call.
C19_ProviderFailureFallsThrough ==
    (last.op = "geo" /\ last.gave # <<>>) =>
        LET n == Len(last.calls) IN
        /\ ~last.raised
        /\ \A i \in 1..n : ~last.gave[i].ok => (i = NumProviders \/ i < n)
        /\ last.ret.country \in {PyNone} \cup {last.gave[i].country : i \in 1..n}
        /\ last.ret.city \in {PyNone} \cup {last.gave[i].city : i \in 1..n}

\* C22: the country and the city a fetch returns are those of one provider
\* response; a city of an earlier provider that gave no country is never returned
\* together with the country of a later one.
C22_CountryAndCityFromOneProvider ==
    (last.op = "geo" /\ last.gave # <<>> /\ ~last.raised /\ last.ret # NoGeo) =>
        \E i \in 1..Len(last.calls) :
            /\ last.gave[i].ok
            /\ last.ret = [country |-> last.gave[i].country, city |-> last.gave[i].city]

----------------------------------------------------------------------------
(* Detector: properties *)

LogIPs == {requestLog[i].ip_address : i \in 1..Len(requestLog)}

VolumeReason(count) == [rule |-> "volume", count |-> count, path |-> ""]

\* C4: after a detector run, an IP that had no SuspiciousIP entry before the run has
\* one with reason "<count> requests in the last hour" exactly if its count of
\* entries in the last hour is greater than 100; an entry that existed before the
\* run is still there with the same reason and date.
C4_VolumeRule ==
    last.op = "detect" =>
        /\ \A ip \in LogIPs \ DOMAIN last.before :
              LET count == RequestCount(requestLog, now, ip)
              IN (Has(suspiciousIPs, ip) /\ suspiciousIPs[ip].reason = VolumeReason(count))
                     <=> count > VolumeThreshold
        /\ \A ip \in DOMAIN last.before :
              Has(suspiciousIPs, ip) /\ suspiciousIPs[ip] = last.before[ip]

\* C5: after a detector run, every entry of the last hour on /admin or /login has a
\* SuspiciousIP entry for its IP; where the run created it and the IP's count is
\* not above 100, the reason is "Accessed sensitive path: <path>" for a path that IP
\* requested; no run changes the reason of an entry that existed before it.
C5_SensitivePathRule ==
    last.op = "detect" =>
        /\ \A i \in SensitiveEntries(requestLog, now) :
              LET ip == requestLog[i].ip_address
              IN /\ Has(suspiciousIPs, ip)
                 /\ (~Has(last.before, ip) /\ RequestCount(requestLog, now, ip) <= VolumeThreshold)
                        => /\ suspiciousIPs[ip].reason.rule = "sensitive"
                           /\ suspiciousIPs[ip].reason.path \in FirstPaths(requestLog, now, ip)
        /\ \A ip \in DOMAIN last.before :
              Has(suspiciousIPs, ip) /\ suspiciousIPs[ip].reason = last.before[ip].reason

----------------------------------------------------------------------------
(* Rate limiter: properties *)

\* C6: starting from empty counters, an authenticated user who sends POSTs to
\* login_view from one address within one window has the first 10 processed and
\* the 11th rejected.
C6_AuthenticatedTenPerMinute ==
    (/\ last.op = "login"
     /\ last.method = "POST"
     /\ last.user # Anonymous
     /\ run.n > 0 /\ run.user = last.user /\ run.remote = last.remote)
        => /\ run.n <= UserLimit => last.outcome = "processed"
           /\ run.n = UserLimit + 1 => last.outcome = "ratelimited"

\* C7 as stated: of the anonymous POSTs from one address in one window the first 5
\* reach the view and every POST past the 5th from that address is rejected; both
\* limiters are evaluated on every POST; a POST over either limit is rejected; a
\* request of another method is neither counted nor rejected.
C7_BothLimitersOnEveryPost ==
    last.op = "login" =>
        /\ (last.method = "POST" /\ last.user = Anonymous /\ last.ipCount <= IpLimit)
               => last.outcome = "processed"
        /\ (last.method = "POST" /\ last.ipCount > IpLimit) => last.outcome = "ratelimited"
        /\ last.method = "POST" => last.ipEvaluated /\ last.userEvaluated
        /\ (last.method = "POST" /\ (last.ipCount > IpLimit \/ last.userCount > UserLimit))
               => last.outcome = "ratelimited"
        /\ last.method # "POST"
               => /\ ~last.ipEvaluated /\ ~last.userEvaluated
                  /\ last.cacheSame
                  /\ last.outcome # "ratelimited"

\* C7 amended: as above, but the user-or-IP limiter is evaluated exactly on the
\* POSTs the IP limiter lets through.
C7_LimitersInDecoratorOrder ==
    last.op = "login" =>
        /\ (last.method = "POST" /\ last.user = Anonymous /\ last.ipCount <= IpLimit)
               => last.outcome = "processed"
        /\ (last.method = "POST" /\ last.ipCount > IpLimit) => last.outcome = "ratelimited"
        /\ last.method = "POST"
               => /\ last.ipEvaluated
                  /\ last.userEvaluated <=> last.ipCount <= IpLimit
        /\ (last.method = "POST" /\ (last.ipCount > IpLimit \/ last.userCount > UserLimit))
               => last.outcome = "ratelimited"
        /\ last.method # "POST"
               => /\ ~last.ipEvaluated /\ ~last.userEvaluated
                  /\ last.cacheSame
                  /\ last.outcome # "ratelimited"

\* the sixth anonymous POST of a run from one address is rejected
C7_Witness ==
    /\ last.op = "login"
    /\ last.method = "POST"
    /\ last.user = Anonymous
    /\ run.n = IpLimit + 1
    /\ last.ipCount = IpLimit + 1
    /\ last.outcome = "ratelimited"

----------------------------------------------------------------------------
(* Client-IP resolution: properties *)

\* the text of s before its first comma (all of s when it has none)
FirstField(s) ==
    LET commas == {i \in 1..Len(s) : s[i] = ","}
    IN IF commas = {} THEN s
       ELSE SubSeq(s, 1, (CHOOSE i \in commas : \A j \in commas : i <= j) - 1)

\* s without its leading and trailing blanks
Trimmed(s) ==
    LET inked == {i \in 1..Len(s) : s[i] # " "}
    IN IF inked = {} THEN <<>>
       ELSE SubSeq(s, CHOOSE i \in inked : \A j \in inked : i <= j,
                      CHOOSE i \in inked : \A j \in inked : i >= j)

\* header name is in META with a non-empty value
NonEmptyHeader(META, name) == Has(META, name) /\ META[name] # <<>>

\* C12: the resolved IP is the trimmed first field of X-Forwarded-For when that
\* header is present and non-empty, whatever X-Real-IP and the peer address are;
\* otherwise the trimmed X-Real-IP when that is present and non-empty; otherwise
\* REMOTE_ADDR, or 0.0.0.0 when META has no REMOTE_ADDR; the result is always a text.
C12_ClientIpResolutionOrder ==
    last.op = "client_ip" =>
        LET META == last.META IN
        /\ last.ret \in Seq(HeaderSymbols \cup {"1.1.1.1", "127.0.0.1", "0.0.0.0"})
        /\ last.ret =
              IF NonEmptyHeader(META, "HTTP_X_FORWARDED_FOR")
              THEN Trimmed(FirstField(META["HTTP_X_FORWARDED_FOR"]))
              ELSE IF NonEmptyHeader(META, "HTTP_X_REAL_IP")
              THEN Trimmed(META["HTTP_X_REAL_IP"])
              ELSE IF Has(META, "REMOTE_ADDR") THEN META["REMOTE_ADDR"]
              ELSE DefaultIP

\* "X-Forwarded-For: 8.8.8.8, 10.0.0.5" with X-Real-IP and a peer address set
\* resolves to 8.8.8.8
C12_Witness ==
    /\ last.op = "client_ip"
    /\ last.META = Meta(<<"8.8.8.8", ",", " ", "10.0.0.5">>, <<" ", "1.1.1.1", " ">>,
                        <<"127.0.0.1">>)
    /\ last.ret = PublicIP

====
